---- MODULE Spec2Model ----
(***************************************************************************)
(* Model of pssm_updater.py (class PSSMMaterialUpdater and its __main__).  *)
(*                                                                         *)
(* Text is a sequence of atoms.  An atom is a string; the text a sequence  *)
(* stands for is the concatenation of its atoms.  The atoms are the        *)
(* keywords the regular expressions of the program look for, one-character *)
(* punctuation and whitespace, a few identifiers, and atoms that lost     *)
(* their last characters to a slice.  A keyword occurs in a concatenation  *)
(* of atoms as an atom of its own, at the end of the import line that lost *)
(* its closing quote (EndsInMaterial), or as an atom that lost its last    *)
(* character followed by an atom that starts with it (HasForbidden,        *)
(* ContainsUnit); with these cases a regular expression or substring test  *)
(* of the program is computed on atoms as Python computes it on the        *)
(* characters.                                                             *)
(***************************************************************************)
EXTENDS Integers, Sequences, FiniteSets, TLC

\* ------------------------------------------------------------------ atoms

\* line 90: the import directive the writer puts first (one atom, no newline)
ImportLine == "import * from \"managed_mats.material\""

\* line 62: the namespace every rewritten material inherits from
BasePath == "RoR/Managed_Mats/Base"

\* line 22: substrings that disqualify a material
Forbidden == {"vertex_program_ref", "fragment_program_ref", "tex_coord_set"}

\* \s of the regular expressions: the whitespace atoms (one character each)
Space == {" ", "\n"}

\* atoms of one character that is neither whitespace nor a word character
Punct == {"{", "}", ":"}

IsSpace(a) == a \in Space

\* the last character of the atom is a word character (\w)
EndsWord(a) ==
  a \notin Space \cup Punct \cup {ImportLine, "import * from \"managed_mats."}

\* \b in front of atom i of s, an atom that starts with a word character
WordBoundaryBefore(s, i) == i = 1 \/ ~EndsWord(s[i - 1])

RECURSIVE SkipSpace(_, _)
\* \s* from index i on: the index of the first atom that is not whitespace
SkipSpace(s, i) ==
  IF i <= Len(s) /\ IsSpace(s[i]) THEN SkipSpace(s, i + 1) ELSE i

\* keyword\s*{ matches at atom i: whitespace only between atom i and a "{"
OpensBrace(s, i) ==
  LET j == SkipSpace(s, i + 1) IN j <= Len(s) /\ s[j] = "{"

\* str.find / str.rfind of a one-character atom, as an index (0: not found)
FindFirst(s, a) ==
  IF \E i \in 1..Len(s) : s[i] = a
  THEN CHOOSE i \in 1..Len(s) : s[i] = a /\ \A j \in 1..(i - 1) : s[j] # a
  ELSE 0
FindLast(s, a) ==
  IF \E i \in 1..Len(s) : s[i] = a
  THEN CHOOSE i \in 1..Len(s) : s[i] = a /\ \A j \in (i + 1)..Len(s) : s[j] # a
  ELSE 0

\* s[i..j] as Python slices: empty when the range is empty
Slice(s, i, j) == IF i > j THEN <<>> ELSE SubSeq(s, i, j)

RECURSIVE Flatten(_)
\* the concatenation of a sequence of texts
Flatten(ss) == IF ss = <<>> THEN <<>> ELSE Head(ss) \o Flatten(Tail(ss))

\* -------------------------------------------------- parse_material_file

\* line 17: the atoms whose last characters are 'material': the keyword, and
\* the import line without its closing quote
EndsInMaterial(a) ==
  a \in {"material", "import * from \"managed_mats.material"}

\* line 17: what such an atom holds in front of 'material'
BeforeMaterial(a) ==
  IF a = "material" THEN <<>> ELSE <<"import * from \"managed_mats.">>

RECURSIVE SplitMaterial(_, _, _)
\* line 17: re.split(r'material\s+', content); cur is the piece being read
SplitMaterial(s, i, cur) ==
  IF i > Len(s) THEN <<cur>>
  ELSE IF EndsInMaterial(s[i]) /\ i < Len(s) /\ IsSpace(s[i + 1])
       THEN <<cur \o BeforeMaterial(s[i])>>
              \o SplitMaterial(s, SkipSpace(s, i + 1), <<>>)
       ELSE SplitMaterial(s, i + 1, Append(cur, s[i]))

\* lines 15-18: the pieces after the first, each prefixed with "material "
parse_material_file(content) ==
  LET pieces == Tail(SplitMaterial(content, 1, <<>>))
  IN  [k \in 1..Len(pieces) |-> <<"material", " ">> \o pieces[k]]

\* -------------------------------------------------- is_eligible_material

RECURSIVE CountOpeners(_, _, _)
\* len(re.findall(r'\bkw\s*{', s)): the scan resumes after each match
CountOpeners(s, kw, i) ==
  IF i > Len(s) THEN 0
  ELSE IF s[i] = kw /\ WordBoundaryBefore(s, i) /\ OpensBrace(s, i)
       THEN 1 + CountOpeners(s, kw, SkipSpace(s, i + 1) + 1)
       ELSE CountOpeners(s, kw, i + 1)

\* line 22: the atoms that start with 't', and those that start with 'f'
StartsT ==
  {"technique", "techniqu", "techniq", "texture_unit", "texture_uni",
   "texture_un", "tex_coord_set", "tex_coord_se", "tex_coord_s"}
StartsF ==
  {"fragment_program_ref", "fragment_program_re", "fragment_program_r"}

\* line 22: any(x in material_text for x in [...]); a forbidden word is an
\* atom, or an atom that lost its last character followed by that character
HasForbidden(s) ==
  \E i \in 1..Len(s) :
    \/ s[i] \in Forbidden
    \/ /\ i < Len(s)
       /\ \/ s[i] = "tex_coord_se" /\ s[i + 1] \in StartsT
          \/ /\ s[i] \in {"vertex_program_re", "fragment_program_re"}
             /\ s[i + 1] \in StartsF

\* the variant with the list of line 22 cut short
is_eligible_material_no_coord(s) ==
  /\ ~(\E i \in 1..Len(s) : s[i] \in Forbidden \ {"tex_coord_set"})
  /\ CountOpeners(s, "pass", 1) >= 1
  /\ CountOpeners(s, "texture_unit", 1) = 1

\* lines 20-32
is_eligible_material(s) ==
  /\ ~HasForbidden(s)
  /\ CountOpeners(s, "pass", 1) \in {1, 2}
  /\ CountOpeners(s, "texture_unit", 1) = 1

\* --------------------------------------------------- transform_material
\* transform_material is applied to the blocks parse_material_file returns:
\* "material", one space, then text that does not start with whitespace.

\* line 37: name_match is None (AttributeError) when [^\n{]+ has nothing to
\* match, i.e. nothing or a "{" follows "material "
TransformRaises(s) == Len(s) < 3 \/ s[3] = "{"

RECURSIVE NameEnd(_, _)
\* line 36: [^\n{]+ (greedy) from atom i on; the index of its last atom
NameEnd(s, i) ==
  IF i < Len(s) /\ s[i + 1] \notin {"\n", "{"} THEN NameEnd(s, i + 1) ELSE i

RECURSIVE RStrip(_)
\* line 37: .strip(); the name never starts with whitespace
RStrip(s) ==
  IF s # <<>> /\ IsSpace(s[Len(s)]) THEN RStrip(SubSeq(s, 1, Len(s) - 1)) ELSE s

\* line 37
MaterialName(s) == RStrip(SubSeq(s, 3, NameEnd(s, 3)))

\* an atom without its last character ("" when it has only one); a block
\* that was transformed holds both braces and is not chopped again, so the
\* table stops at atoms that lost two characters
Chopped(a) ==
  CASE a \in Space \cup Punct \cup {"m"} -> ""
    [] a = ImportLine -> "import * from \"managed_mats.material"
    [] a = "import * from \"managed_mats.material" ->
         "import * from \"managed_mats.materia"
    [] a = "import * from \"managed_mats." -> "import * from \"managed_mats"
    [] a = "material" -> "materia"
    [] a = "technique" -> "techniqu"
    [] a = "pass" -> "pas"
    [] a = "texture_unit" -> "texture_uni"
    [] a = "vertex_program_ref" -> "vertex_program_re"
    [] a = "fragment_program_ref" -> "fragment_program_re"
    [] a = "tex_coord_set" -> "tex_coord_se"
    [] a = "BaseTechnique" -> "BaseTechniqu"
    [] a = "BaseRender" -> "BaseRende"
    [] a = "Diffuse_Map" -> "Diffuse_Ma"
    [] a = BasePath -> "RoR/Managed_Mats/Bas"
    [] a = "materia" -> "materi"
    [] a = "techniqu" -> "techniq"
    [] a = "pas" -> "pa"
    [] a = "texture_uni" -> "texture_un"
    [] a = "vertex_program_re" -> "vertex_program_r"
    [] a = "fragment_program_re" -> "fragment_program_r"
    [] a = "tex_coord_se" -> "tex_coord_s"
    [] a = "BaseTechniqu" -> "BaseTechniq"
    [] a = "BaseRende" -> "BaseRend"
    [] a = "Diffuse_Ma" -> "Diffuse_M"
    [] a = "RoR/Managed_Mats/Bas" -> "RoR/Managed_Mats/Ba"

\* text[:-1]: the text without its last character
ChopLastChar(s) ==
  IF s = <<>> THEN <<>>
  ELSE LET c == Chopped(s[Len(s)])
       IN  IF c = "" THEN SubSeq(s, 1, Len(s) - 1)
           ELSE SubSeq(s, 1, Len(s) - 1) \o <<c>>

\* text[from:found] where found is the result of find/rfind: index 0 stands
\* for Python's -1, which as a slice bound means "all but the last character"
SliceToFound(s, from, found) ==
  IF found = 0 THEN ChopLastChar(Slice(s, from, Len(s)))
  ELSE Slice(s, from, found - 1)

\* lines 41-43
PreBraceWs(s) ==
  SliceToFound(s, 3 + Len(MaterialName(s)), FindFirst(s, "{"))

\* lines 41-44
InnerContent(s) ==
  SliceToFound(s, FindFirst(s, "{") + 1, FindLast(s, "}"))

RECURSIVE SubKeyword(_, _, _, _)
\* lines 47 and 59: re.sub(r'\bkw\b(?=\s*{)', 'kw suffix', s), from atom i on
SubKeyword(s, kw, suffix, i) ==
  IF i > Len(s) THEN <<>>
  ELSE IF s[i] = kw /\ WordBoundaryBefore(s, i) /\ OpensBrace(s, i)
       THEN <<kw, " ", suffix>> \o SubKeyword(s, kw, suffix, i + 1)
       ELSE <<s[i]>> \o SubKeyword(s, kw, suffix, i + 1)

RECURSIVE FirstFrom(_, _, _)
\* the index of the first atom a at or after i (0: none)
FirstFrom(s, a, i) ==
  IF i > Len(s) THEN 0 ELSE IF s[i] = a THEN i ELSE FirstFrom(s, a, i + 1)

\* the variant of replace_pass that renames every pass
replace_pass_always(pass_block) ==
  <<"pass", " ", "BaseRender">> \o Tail(pass_block)

\* line 52: 'texture_unit' in text; the word is an atom, or the atom that
\* lost its 't' followed by an atom that starts with 't'
ContainsUnit(s) ==
  \E k \in 1..Len(s) :
    \/ s[k] = "texture_unit"
    \/ k < Len(s) /\ s[k] = "texture_uni" /\ s[k + 1] \in StartsT

\* lines 50-54: the replacement for one matched span
replace_pass(pass_block) ==
  IF ContainsUnit(pass_block)
  THEN <<"pass", " ", "BaseRender">> \o Tail(pass_block)
  ELSE pass_block

RECURSIVE SubPass(_, _)
\* line 56: re.sub(r'pass\s*{[^}]*}', replace_pass, s), from atom i on
SubPass(s, i) ==
  IF i > Len(s) THEN <<>>
  ELSE LET e == IF s[i] = "pass" /\ OpensBrace(s, i)
                THEN FirstFrom(s, "}", SkipSpace(s, i + 1) + 1)
                ELSE 0
       IN  IF e > 0
           THEN replace_pass(SubSeq(s, i, e)) \o SubPass(s, e + 1)
           ELSE <<s[i]>> \o SubPass(s, i + 1)

\* the variant that leaves texture_unit as it is
TransformInnerNoUnit(inner) ==
  SubPass(SubKeyword(inner, "technique", "BaseTechnique", 1), 1)

\* lines 46-59: the three substitutions on the inner content, in order
TransformInner(inner) ==
  LET t1 == SubKeyword(inner, "technique", "BaseTechnique", 1)
      t2 == SubPass(t1, 1)
  IN  SubKeyword(t2, "texture_unit", "Diffuse_Map", 1)

\* lines 34-62, for a block on which name_match is not None
transform_material(s) ==
  <<"material", " ">> \o MaterialName(s) \o <<":", " ", BasePath>>
    \o PreBraceWs(s) \o <<"{">> \o TransformInner(InnerContent(s)) \o <<"}">>

\* ------------------------------------------------------- the output file

RECURSIVE JoinBlocks(_)
\* line 90: '\n\n'.join(updated_materials)
JoinBlocks(bs) ==
  IF bs = <<>> THEN <<>>
  ELSE IF Len(bs) = 1 THEN bs[1]
       ELSE bs[1] \o <<"\n", "\n">> \o JoinBlocks(Tail(bs))

\* line 90: the import directive, a blank line, the blocks
OutputContent(bs) == <<ImportLine, "\n", "\n">> \o JoinBlocks(bs)

\* ------------------------------------------------------------- the state

VARIABLES
  pc,                  \* where the program is
  dirExists,           \* the input folder exists
  backupDir,           \* the folder old_materials exists in it
  files,               \* the files of the input folder: name -> content
  backups,             \* the files of old_materials: file name -> content
  processed_files,     \* self.processed_files
  processed_materials, \* self.processed_materials
  updated_materials,   \* self.updated_materials
  material_files,      \* run: the files still to process, in glob's order
  file_path,           \* process_file: the file being processed
  materials,           \* process_file: the parsed blocks
  updated,             \* process_file: the list updated_materials
  updated_count,       \* process_file: updated_count
  out,                 \* the lines printed
  exc,                 \* the exception that ended the program, or "none"
  runs,                \* how many times the program was started
  fs0,                 \* the folder as it was when the program was started
  trace,               \* the file operations of this invocation, in order
  fnText,              \* unit level: the file text given
  fnBlock,             \* unit level: the block under test
  fnPc,                \* unit level: the step reached
  fnElig,              \* unit level: the result of is_eligible_material
  fnOut                \* unit level: the block as it goes into the output

fsVars == <<dirExists, backupDir, files, backups>>
counters == <<processed_files, processed_materials, updated_materials>>
locals == <<material_files, file_path, materials, updated, updated_count>>
runVars == <<pc, fsVars, counters, locals, out, exc, runs, fs0, trace>>
fnVars == <<fnText, fnBlock, fnPc, fnElig, fnOut>>
vars == <<runVars, fnVars>>

\* --------------------------------------------------------------- bounds

\* blocks (or stretches of other text) in the first material file
MaxBlocks == 2
\* invocations of the program on the same folder
MaxRuns == 2
\* items in the body of the block of the unit level
MaxItems == 3

\* ----------------------------------------------------- the input folder

NameA == <<"a", ".material">>
NameB == <<"b", ".material">>
NameT == <<"notes", ".txt">>
NoFile == <<"", "">>

\* line 102: glob('*.material')
IsMaterialFile(name) == name[2] = ".material"

\* stretches of file text: an eligible material, a material with two
\* texture units, one without a name, one whose
\* texture_unit comes before its first brace on a line of its own, one
\* named texture_unit, one whose braces are not closed, and a line that is
\* no material
Good ==
  <<"material", " ", "m", "\n", "{", "technique", "{", "pass", "{",
    "texture_unit", "{", "}", "}", "}", "}", "\n">>
TwoUnits ==
  <<"material", " ", "m", " ", "{", "pass", "{", "texture_unit", "{", "}",
    "texture_unit", "{", "}", "}", "}", "\n">>
Anonymous ==
  <<"material", "\n", "{", "pass", "{", "texture_unit", "{", "}", "}", "}",
    "\n">>
HeaderUnit ==
  <<"material", " ", "m", "\n", "texture_unit", "{", "pass", "{", "}", "}",
    "\n">>
NameUnit ==
  <<"material", " ", "texture_unit", " ", "{", "pass", "{", "}", "}", "\n">>
Unclosed ==
  <<"material", " ", "m", "{", "pass", "{", "texture_unit", "{", "\n">>
Comment == <<"m", "\n">>
Shapes ==
  {Good, TwoUnits, Anonymous, HeaderUnit, NameUnit, Unclosed, Comment}

SeqsUpTo(S, n) == UNION {[1..k -> S] : k \in 0..n}

\* the contents a.material may have, and those b.material may have
Contents == {Flatten(ss) : ss \in SeqsUpTo(Shapes, MaxBlocks)}
ShortContents == {Flatten(ss) : ss \in SeqsUpTo(Shapes, 1)}

EmptyDir == [n \in {} |-> <<>>]

Snapshot == [dirExists |-> dirExists, backupDir |-> backupDir,
             files |-> files, backups |-> backups]

FnIdle ==
  /\ fnText = <<>> /\ fnBlock = <<>> /\ fnPc = "idle"
  /\ fnElig = FALSE /\ fnOut = <<>>

Init ==
  /\ FnIdle
  /\ pc = "start" /\ exc = "none" /\ out = <<>> /\ trace = <<>>
  /\ runs = 1
  /\ processed_files = 0 /\ processed_materials = 0 /\ updated_materials = 0
  /\ material_files = <<>> /\ file_path = NoFile
  /\ materials = <<>> /\ updated = <<>> /\ updated_count = 0
  /\ backups = EmptyDir
  /\ \/ dirExists = FALSE /\ backupDir = FALSE /\ files = EmptyDir
     \/ /\ dirExists = TRUE
        /\ backupDir \in BOOLEAN
        /\ \E a \in Contents \cup {<<"absent">>},
              b \in ShortContents \cup {<<"absent">>} :
             files = [n \in {NameT} \cup (IF a = <<"absent">> THEN {} ELSE {NameA})
                                    \cup (IF b = <<"absent">> THEN {} ELSE {NameB})
                      |-> IF n = NameA THEN a ELSE IF n = NameB THEN b
                          ELSE Comment]
  /\ fs0 = Snapshot

\* -------------------------------------------------------------- the run

\* a printed line, with the file and the number it mentions
Msg(line, file, n) == [line |-> line, file |-> file, n |-> n]

\* a file operation: the file, its content before and after
Op(op, file, before, after) ==
  [op |-> op, file |-> file, before |-> before, after |-> after]

BackupFolder == <<"old_materials", "">>

\* the orders in which glob may list a set of files
Orders(S) ==
  {q \in [1..Cardinality(S) -> S] :
     \A i, j \in 1..Cardinality(S) : i # j => q[i] # q[j]}

\* lines 7-13: __init__; mkdir raises when the input folder is missing
Construct ==
  /\ pc = "start"
  /\ IF dirExists
     THEN /\ backupDir' = TRUE
          /\ trace' = IF backupDir THEN trace
                      ELSE Append(trace, Op("mkdir", BackupFolder, <<>>, <<>>))
          /\ pc' = "constructed"
          /\ exc' = exc
     ELSE /\ pc' = "crashed"
          /\ exc' = "FileNotFoundError"
          /\ UNCHANGED <<backupDir, trace>>
  /\ processed_files' = 0
  /\ processed_materials' = 0
  /\ updated_materials' = 0
  /\ UNCHANGED <<dirExists, files, backups, locals, out, runs, fs0, fnVars>>

\* lines 98-105: run, up to the loop over the files
Scan ==
  /\ pc = "constructed"
  /\ LET found == {n \in DOMAIN files : IsMaterialFile(n)}
         banner == out \o <<Msg("Scanning folder", NoFile, 0),
                            Msg("Backup folder", BackupFolder, 0)>>
     IN  IF found = {}
         THEN /\ out' = Append(banner, Msg("No .material files found!", NoFile, 0))
              /\ pc' = "done"
              /\ UNCHANGED material_files
         ELSE /\ out' = banner
              /\ pc' = "files"
              /\ material_files' \in Orders(found)
  /\ UNCHANGED <<fsVars, counters, file_path, materials, updated, updated_count,
                 exc, runs, fs0, trace, fnVars>>

\* lines 107-108 and 64-71: the next file is read and split into blocks
OpenFile ==
  /\ pc = "files"
  /\ material_files # <<>>
  /\ LET name == Head(material_files)
     IN  /\ file_path' = name
         /\ materials' = parse_material_file(files[name])
         /\ out' = Append(out, Msg("Processing", name, 0))
         /\ trace' = Append(trace, Op("read", name, files[name], files[name]))
  /\ material_files' = Tail(material_files)
  /\ updated' = <<>>
  /\ updated_count' = 0
  /\ pc' = "loop"
  /\ UNCHANGED <<fsVars, counters, exc, runs, fs0, fnVars>>

\* the variant of lines 73-80 that gives up the file, not the run, when
\* transform_material raises
ClassifyBlockIsolated ==
  /\ pc = "loop"
  /\ Len(updated) < Len(materials)
  /\ LET material == materials[Len(updated) + 1]
     IN  /\ processed_materials' = processed_materials + 1
         /\ IF is_eligible_material(material)
            THEN IF TransformRaises(material)
                 THEN /\ pc' = "files"
                      /\ UNCHANGED <<exc, updated, updated_count, updated_materials>>
                 ELSE /\ updated' = Append(updated, transform_material(material))
                      /\ updated_count' = updated_count + 1
                      /\ updated_materials' = updated_materials + 1
                      /\ UNCHANGED <<pc, exc>>
            ELSE /\ updated' = Append(updated, material)
                 /\ UNCHANGED <<pc, exc, updated_count, updated_materials>>
  /\ UNCHANGED <<fsVars, processed_files, material_files, file_path, materials,
                 out, runs, fs0, trace, fnVars>>

\* the variant of lines 75-80 that trims the blocks it does not transform
UpdatedBlockTrimmed(material) ==
  IF is_eligible_material(material) THEN transform_material(material)
  ELSE RStrip(material)

\* lines 75-80: the block appended to updated_materials
UpdatedBlock(material) ==
  IF is_eligible_material(material) THEN transform_material(material)
  ELSE material

\* lines 73-80: one turn of the loop over the blocks; transform_material may raise
ClassifyBlock ==
  /\ pc = "loop"
  /\ Len(updated) < Len(materials)
  /\ LET material == materials[Len(updated) + 1]
     IN  /\ processed_materials' = processed_materials + 1
         /\ IF is_eligible_material(material)
            THEN IF TransformRaises(material)
                 THEN /\ pc' = "crashed"
                      /\ exc' = "AttributeError"
                      /\ UNCHANGED <<updated, updated_count, updated_materials>>
                 ELSE /\ updated' = Append(updated, UpdatedBlock(material))
                      /\ updated_count' = updated_count + 1
                      /\ updated_materials' = updated_materials + 1
                      /\ UNCHANGED <<pc, exc>>
            ELSE /\ updated' = Append(updated, UpdatedBlock(material))
                 /\ UNCHANGED <<pc, exc, updated_count, updated_materials>>
  /\ UNCHANGED <<fsVars, processed_files, material_files, file_path, materials,
                 out, runs, fs0, trace, fnVars>>

\* the variant of line 83 that rewrites every file
ShouldWriteAlways(count) == count >= 0

\* line 83
ShouldWrite(count) == count > 0

\* the variant of line 85 with one backup file for all
BackupNameFixed(name) == <<"backup", ".material">>

\* line 85: the backup has the name of the file
BackupName(name) == name

\* lines 83-87: the loop is over and something changed; the file is copied
Backup ==
  /\ pc = "loop"
  /\ Len(updated) = Len(materials)
  /\ ShouldWrite(updated_count)
  /\ backups' = [n \in DOMAIN backups \cup {BackupName(file_path)} |->
                   IF n = BackupName(file_path) THEN files[file_path]
                   ELSE backups[n]]
  /\ trace' = Append(trace, Op("copy", file_path, files[file_path], files[file_path]))
  /\ pc' = "write"
  /\ UNCHANGED <<dirExists, backupDir, files, counters, locals, out, exc, runs,
                 fs0, fnVars>>

\* lines 89-94: the file is overwritten
Write ==
  /\ pc = "write"
  /\ files' = [files EXCEPT ![file_path] = OutputContent(updated)]
  /\ trace' = Append(trace, Op("write", file_path, files[file_path],
                               OutputContent(updated)))
  /\ out' = Append(out, Msg("updated", file_path, updated_count))
  /\ processed_files' = processed_files + 1
  /\ pc' = "files"
  /\ UNCHANGED <<dirExists, backupDir, backups, processed_materials,
                 updated_materials, locals, exc, runs, fs0, fnVars>>

\* the variant of lines 95-96 that counts the file as processed
NoEligibleCounted ==
  /\ pc = "loop"
  /\ Len(updated) = Len(materials)
  /\ updated_count = 0
  /\ out' = Append(out, Msg("No eligible materials found", file_path, 0))
  /\ processed_files' = processed_files + 1
  /\ pc' = "files"
  /\ UNCHANGED <<fsVars, processed_materials, updated_materials, locals, exc,
                 runs, fs0, trace, fnVars>>

\* lines 95-96: the loop is over and nothing changed
NoEligible ==
  /\ pc = "loop"
  /\ Len(updated) = Len(materials)
  /\ ~ShouldWrite(updated_count)
  /\ out' = Append(out, Msg("No eligible materials found", file_path, 0))
  /\ pc' = "files"
  /\ UNCHANGED <<fsVars, counters, locals, exc, runs, fs0, trace, fnVars>>

\* lines 110-113: the summary after the last file
Summary ==
  /\ pc = "files"
  /\ material_files = <<>>
  /\ out' = out \o <<Msg("Summary:", NoFile, 0),
                     Msg("Files processed:", NoFile, processed_files),
                     Msg("Materials found:", NoFile, processed_materials),
                     Msg("Materials updated with shadows support:", NoFile,
                         updated_materials)>>
  /\ pc' = "done"
  /\ UNCHANGED <<fsVars, counters, locals, exc, runs, fs0, trace, fnVars>>

\* lines 115-121: after a run that completed, the program is started again
\* on the same folder
Restart ==
  /\ pc = "done"
  /\ runs < MaxRuns
  /\ runs' = runs + 1
  /\ pc' = "start"
  /\ exc' = "none"
  /\ out' = <<>>
  /\ trace' = <<>>
  /\ fs0' = Snapshot
  /\ processed_files' = 0
  /\ processed_materials' = 0
  /\ updated_materials' = 0
  /\ material_files' = <<>>
  /\ file_path' = NoFile
  /\ materials' = <<>>
  /\ updated' = <<>>
  /\ updated_count' = 0
  /\ UNCHANGED <<fsVars, fnVars>>

Next ==
  \/ Construct
  \/ Scan
  \/ OpenFile
  \/ ClassifyBlock
  \/ Backup
  \/ Write
  \/ NoEligible
  \/ Summary
  \/ Restart

Spec == Init /\ [][Next]_vars

\* ------------------------------------------------------- the unit level
\* One block goes through parse_material_file, is_eligible_material and
\* transform_material, as in lines 69-80.

\* what follows "material " up to the body
Headers ==
  { <<"m", " ", "{">>,
    <<"m", "\n", "{", "\n", "technique", "\n", "{">>,
    <<"{">>,
    <<"m", "\n", "texture_unit", " ", "{">>,
    <<"m", "}", "\n", "texture_unit", " ", "{">> }

\* the pieces of a body
Items ==
  { <<"technique", " ", "{">>,
    <<"pass", "{">>,
    <<"pass", " ", "{", "}">>,
    <<"texture_unit", " ", "{", "}">>,
    <<"pass", "{", "texture_uni", "technique", "}">>,
    <<"}">>,
    <<"m">> }

\* a disqualifying word, or none
Extras == {<<>>} \cup {<<w, "\n">> : w \in Forbidden}

\* the end of the block
Tails == { <<>>, <<"}", "}">>, <<"}", "}", "}", "\n">> }

FnTexts ==
  { <<"material", " ">> \o h \o Flatten(b) \o x \o t :
      h \in Headers, b \in SeqsUpTo(Items, MaxItems), x \in Extras, t \in Tails }

RunIdle ==
  /\ pc = "idle" /\ exc = "none" /\ out = <<>> /\ trace = <<>>
  /\ runs = 0
  /\ processed_files = 0 /\ processed_materials = 0 /\ updated_materials = 0
  /\ material_files = <<>> /\ file_path = NoFile
  /\ materials = <<>> /\ updated = <<>> /\ updated_count = 0
  /\ dirExists = FALSE /\ backupDir = FALSE
  /\ files = EmptyDir /\ backups = EmptyDir
  /\ fs0 = Snapshot

FnInit ==
  /\ RunIdle
  /\ fnText \in FnTexts
  /\ fnBlock = <<>> /\ fnPc = "text" /\ fnElig = FALSE /\ fnOut = <<>>

\* lines 69-73: the blocks of the text, the empty list, the counter at 0 and
\* the first block in hand
FnParse ==
  /\ fnPc = "text"
  /\ parse_material_file(fnText) # <<>>
  /\ materials' = parse_material_file(fnText)
  /\ updated' = <<>>
  /\ updated_count' = 0
  /\ fnBlock' = parse_material_file(fnText)[1]
  /\ fnPc' = "parsed"
  /\ UNCHANGED <<fnText, fnElig, fnOut>>
  /\ UNCHANGED <<pc, fsVars, counters, material_files, file_path, out, exc,
                 runs, fs0, trace>>

\* lines 74-75: the block is counted, then classified
FnClassify ==
  /\ fnPc = "parsed"
  /\ processed_materials' = processed_materials + 1
  /\ fnElig' = is_eligible_material(fnBlock)
  /\ fnPc' = "classified"
  /\ UNCHANGED <<fnText, fnBlock, fnOut>>
  /\ UNCHANGED <<pc, fsVars, processed_files, updated_materials, locals, out,
                 exc, runs, fs0, trace>>

\* lines 76-78, when transform_material returns
FnTransform ==
  /\ fnPc = "classified"
  /\ fnElig
  /\ ~TransformRaises(fnBlock)
  /\ fnOut' = transform_material(fnBlock)
  /\ updated' = Append(updated, transform_material(fnBlock))
  /\ updated_count' = updated_count + 1
  /\ updated_materials' = updated_materials + 1
  /\ fnPc' = "transformed"
  /\ UNCHANGED <<fnText, fnBlock, fnElig>>
  /\ UNCHANGED <<pc, fsVars, processed_files, processed_materials,
                 material_files, file_path, materials, out, exc, runs, fs0,
                 trace>>

\* line 76, when transform_material raises: nothing is appended or counted
FnRaise ==
  /\ fnPc = "classified"
  /\ fnElig
  /\ TransformRaises(fnBlock)
  /\ exc' = "AttributeError"
  /\ fnPc' = "raised"
  /\ UNCHANGED <<fnText, fnBlock, fnElig, fnOut>>
  /\ UNCHANGED <<pc, fsVars, counters, locals, out, runs, fs0, trace>>

\* lines 79-80: the block is appended as it is
FnKeep ==
  /\ fnPc = "classified"
  /\ ~fnElig
  /\ fnOut' = fnBlock
  /\ updated' = Append(updated, fnBlock)
  /\ fnPc' = "kept"
  /\ UNCHANGED <<fnText, fnBlock, fnElig>>
  /\ UNCHANGED <<pc, fsVars, counters, material_files, file_path, materials,
                 updated_count, out, exc, runs, fs0, trace>>

FnNext ==
  \/ FnParse
  \/ FnClassify
  \/ FnTransform
  \/ FnRaise
  \/ FnKeep

FnSpec == FnInit /\ [][FnNext]_vars

\* ---------------------------------------------------------- the claims

Last(q) == q[Len(q)]

\* the indices of the operations op of this invocation
OpsAt(op) == {k \in 1..Len(trace) : trace[k].op = op}

\* C1: every file overwritten in a run was copied to old_materials under its
\* own name before the overwrite began, with the content it had just before
\* the overwrite, and the copy still has that content at every later point
\* of the run.
BackupBeforeOverwrite ==
  \A k \in OpsAt("write") :
    /\ \E j \in 1..(k - 1) :
         /\ trace[j].op = "copy"
         /\ trace[j].file = trace[k].file
         /\ trace[j].before = trace[k].before
    /\ trace[k].file \in DOMAIN backups
    /\ backups[trace[k].file] = trace[k].before

\* C1 witness: a run has overwritten two files
TwoFilesOverwritten ==
  pc = "done" /\ Cardinality(OpsAt("write")) = 2

\* the file process_file is working on, or is about to be called with
Processing ==
  IF pc = "files" /\ material_files # <<>> THEN Head(material_files)
  ELSE IF pc \in {"loop", "write"} THEN file_path
  ELSE NoFile

NoneEligible(content) ==
  LET bs == parse_material_file(content)
  IN  \A k \in 1..Len(bs) : ~is_eligible_material(bs[k])

\* C2: while process_file works on a file none of whose blocks is eligible
\* (a file without blocks included), no step creates a backup or writes:
\* the folder, its files and the backups stay as they are, and the file is
\* never taken to the overwrite.
NoEligibleNoWrite ==
  [][ (Processing # NoFile /\ NoneEligible(files[Processing]))
        => /\ fsVars' = fsVars
           /\ pc' \notin {"write", "crashed"}
           /\ OpsAt("copy")' = OpsAt("copy")
           /\ OpsAt("write")' = OpsAt("write") ]_vars

\* C2 witness: a file with blocks, none of them eligible, has been left alone
IneligibleFileLeft ==
  /\ pc = "files"
  /\ out # <<>>
  /\ Last(out).line = "No eligible materials found"
  /\ materials # <<>>

RECURSIVE Glue(_, _)
\* the blocks bs from the k-th on, each after a blank-line separator
Glue(bs, k) ==
  IF k > Len(bs) THEN <<>> ELSE <<"\n", "\n">> \o bs[k] \o Glue(bs, k + 1)

\* the text of an output file made of the blocks bs
FileOf(bs) ==
  <<ImportLine, "\n", "\n">> \o (IF bs = <<>> THEN <<>> ELSE bs[1] \o Glue(bs, 2))

\* C3: a rewritten file consists of the import line and as many blocks as
\* were parsed from the input, in the same order; a block that is not
\* eligible is in the output exactly as it was in the input, and an
\* eligible one differs.
BlocksPreserved ==
  (trace # <<>> /\ Last(trace).op = "write") =>
    LET w == Last(trace)
        parsed == parse_material_file(w.before)
    IN  /\ w.after = FileOf(updated)
        /\ files[w.file] = w.after
        /\ Len(updated) = Len(parsed)
        /\ \A k \in 1..Len(parsed) :
             IF is_eligible_material(parsed[k])
             THEN updated[k] # parsed[k]
             ELSE updated[k] = parsed[k]

\* C3 witness: a file with an eligible and an ineligible block was rewritten
MixedFileRewritten ==
  /\ trace # <<>>
  /\ Last(trace).op = "write"
  /\ Len(updated) >= 2
  /\ \E k \in 1..Len(updated) : updated[k] = materials[k]
  /\ \E k \in 1..Len(updated) : updated[k] # materials[k]

\* the openers of keyword kw in s: the keyword as a whole word, then
\* nothing but whitespace, then "{"
Openers(s, kw) ==
  {i \in 1..Len(s) :
     /\ s[i] = kw
     /\ (i > 1 => s[i - 1] \in Space \cup Punct \cup {ImportLine})
     /\ \E j \in (i + 1)..Len(s) :
          s[j] = "{" /\ \A k \in (i + 1)..(j - 1) : s[k] \in Space}

\* C4: is_eligible_material is true exactly when the block contains none of
\* vertex_program_ref, fragment_program_ref and tex_coord_set, has one or
\* two pass openers and has exactly one texture_unit opener.
EligibleIffRule ==
  fnPc \in {"classified", "transformed", "raised", "kept"} =>
    (fnElig <=>
       /\ \A i \in 1..Len(fnBlock) :
            fnBlock[i] \notin {"vertex_program_ref", "fragment_program_ref",
                               "tex_coord_set"}
       /\ Cardinality(Openers(fnBlock, "pass")) \in {1, 2}
       /\ Cardinality(Openers(fnBlock, "texture_unit")) = 1)

\* C4 witness: a block with two passes and one texture unit was found eligible
TwoPassEligible ==
  /\ fnPc = "classified"
  /\ fnElig
  /\ Cardinality(Openers(fnBlock, "pass")) = 2

\* the block has a body: a "{" with a "}" somewhere after it
HasBody(s) ==
  \E i, j \in 1..Len(s) : i < j /\ s[i] = "{" /\ s[j] = "}"

\* the text between the first "{" and the last "}" of a block with a body
Body(s) ==
  LET i == CHOOSE x \in 1..Len(s) : s[x] = "{" /\ \A y \in 1..(x - 1) : s[y] # "{"
      j == CHOOSE x \in 1..Len(s) : s[x] = "}" /\ \A y \in (x + 1)..Len(s) : s[y] # "}"
  IN  Slice(s, i + 1, j - 1)

\* the places where a pass span of c starts: "pass", whitespace, "{", then
\* text up to the next "}"; a span does not start inside another one
SpanStarts(c) ==
  LET cand == {i \in 1..Len(c) :
                 /\ c[i] = "pass"
                 /\ \E j \in (i + 1)..Len(c) :
                      /\ c[j] = "{"
                      /\ \A k \in (i + 1)..(j - 1) : c[k] \in Space
                      /\ \E e \in (j + 1)..Len(c) : c[e] = "}"}
  IN  {i \in cand : ~\E h \in cand : h < i /\ \A k \in h..i : c[k] # "}"}

\* the characters texture_unit stand in c at u: as the word itself, or as
\* texture_uni with a word that starts with 't' right behind it
UnitTextAt(c, u) ==
  \/ c[u] = "texture_unit"
  \/ /\ c[u] = "texture_uni"
     /\ u < Len(c)
     /\ c[u + 1] \in {"technique", "texture_unit", "texture_uni",
                      "tex_coord_set"}

\* the span that starts at i holds the characters texture_unit
SpanHasUnit(c, i) ==
  \E u \in (i + 1)..Len(c) :
    UnitTextAt(c, u) /\ \A k \in i..u : c[k] # "}"

\* c with the three suffixes put in, each after its keyword
Renamed(c) ==
  Flatten([i \in 1..Len(c) |->
    IF i \in Openers(c, "technique") THEN <<c[i], " ", "BaseTechnique">>
    ELSE IF i \in SpanStarts(c) /\ SpanHasUnit(c, i)
         THEN <<c[i], " ", "BaseRender">>
    ELSE IF i \in Openers(c, "texture_unit") THEN <<c[i], " ", "Diffuse_Map">>
    ELSE <<c[i]>>])

RECURSIVE Unsuffixed(_)
\* t without the suffixes and the space in front of each
Unsuffixed(t) ==
  IF t = <<>> THEN <<>>
  ELSE IF Len(t) >= 2 /\ t[1] = " "
          /\ t[2] \in {"BaseTechnique", "BaseRender", "Diffuse_Map"}
       THEN Unsuffixed(SubSeq(t, 3, Len(t)))
       ELSE <<t[1]>> \o Unsuffixed(Tail(t))

\* the text after the first "{" of a block that has one
AfterFirstBrace(s) ==
  LET i == CHOOSE x \in 1..Len(s) : s[x] = "{" /\ \A y \in 1..(x - 1) : s[y] # "{"
  IN  Slice(s, i + 1, Len(s))

\* the inner content of a block: the text between the first "{" and the
\* last "}", and the text after the first "{" when no "}" closes it
OriginalInner(s) == IF HasBody(s) THEN Body(s) ELSE AfterFirstBrace(s)

\* C5 as stated: the inner content of every transformed block is the
\* original inner content with BaseTechnique after each technique opener,
\* BaseRender after the pass that starts each pass span holding texture_unit
\* (other passes stay as they are) and Diffuse_Map after each texture_unit
\* opener; with the suffixes taken out it is the original inner content.
OnlySuffixesAddedAlways ==
  fnPc = "transformed" =>
    /\ Body(fnOut) = Renamed(OriginalInner(fnBlock))
    /\ Unsuffixed(Body(fnOut)) = OriginalInner(fnBlock)

\* C5 as amended: in a transformed block that had a "}" after its first "{"
\* the inner content is the original inner content with BaseTechnique after
\* each technique opener, BaseRender after the pass that starts each pass
\* span holding texture_unit (other passes stay as they are) and Diffuse_Map
\* after each texture_unit opener, and with the suffixes taken out it is
\* the original inner content again; a block without any "}" loses its last
\* character before the same renaming, and a block whose every "}" stands
\* before its first "{" loses all the text after that "{".
OnlySuffixesAdded ==
  fnPc = "transformed" =>
    IF HasBody(fnBlock)
    THEN /\ Body(fnOut) = Renamed(Body(fnBlock))
         /\ Unsuffixed(Body(fnOut)) = Body(fnBlock)
    ELSE IF \A k \in 1..Len(fnBlock) : fnBlock[k] # "}"
         THEN /\ Body(fnOut) = Renamed(ChopLastChar(AfterFirstBrace(fnBlock)))
              /\ Unsuffixed(Body(fnOut)) = ChopLastChar(AfterFirstBrace(fnBlock))
              /\ Unsuffixed(Body(fnOut)) # AfterFirstBrace(fnBlock)
         ELSE Body(fnOut) = <<>>

\* C5 witness: a block with a technique, a pass without texture unit and a
\* pass with one was transformed
TwoPassTransformed ==
  /\ fnPc = "transformed"
  /\ HasBody(fnBlock)
  /\ Openers(Body(fnBlock), "technique") # {}
  /\ \E i \in SpanStarts(Body(fnBlock)) : SpanHasUnit(Body(fnBlock), i)
  /\ \E i \in SpanStarts(Body(fnBlock)) : ~SpanHasUnit(Body(fnBlock), i)

HasMaterialFile(fs) == \E n \in DOMAIN fs.files : n[2] = ".material"

\* C6: a run on a folder without .material files prints "No .material files
\* found!" and leaves the folder as it was: nothing is created or modified.
NoFilesNoWrites ==
  (pc = "done" /\ fs0.dirExists /\ ~HasMaterialFile(fs0)) =>
    /\ \E k \in 1..Len(out) : out[k].line = "No .material files found!"
    /\ Snapshot = fs0

\* C7: when the input folder does not exist the program reports it and ends
\* normally, without an exception, and touches nothing.
MissingFolderReported ==
  (~fs0.dirExists /\ pc \in {"constructed", "done", "crashed"}) =>
    /\ pc = "done"
    /\ exc = "none"
    /\ out # <<>>
    /\ Snapshot = fs0

\* a block on which transform_material is called and fails
Failing(b) == is_eligible_material(b) /\ TransformRaises(b)

HasFailingBlock(content) ==
  LET bs == parse_material_file(content)
  IN  \E k \in 1..Len(bs) : Failing(bs[k])

SameAsAtStart(name) ==
  /\ files[name] = fs0.files[name]
  /\ (name \in DOMAIN backups) = (name \in DOMAIN fs0.backups)
  /\ name \in DOMAIN backups => backups[name] = fs0.backups[name]

\* C8: once a file with a block whose transformation fails has been read, it
\* is the last file the run touches: the run is in the loop over its blocks
\* or has ended with the exception, no later file is read, backed up or
\* overwritten, the failing file is neither backed up nor overwritten, and
\* the files rewritten before keep their new content and their backups.
FailureAbortsRun ==
  \A k \in OpsAt("read") :
    HasFailingBlock(trace[k].before) =>
      /\ k = Len(trace)
      /\ pc \in {"loop", "crashed"}
      /\ pc = "crashed" => exc = "AttributeError"
      /\ (pc = "loop" =>
            \A i \in 1..Len(updated) : ~Failing(materials[i]))
      /\ SameAsAtStart(trace[k].file)
      /\ \A i \in 1..Len(material_files) : SameAsAtStart(material_files[i])
      /\ \A j \in 1..(k - 1) :
           trace[j].op = "write" =>
             /\ files[trace[j].file] = trace[j].after
             /\ backups[trace[j].file] = trace[j].before

\* C8 witness: the run ended with the exception after it had rewritten a file
AbortedAfterRewrite ==
  /\ pc = "crashed"
  /\ exc = "AttributeError"
  /\ OpsAt("write") # {}

\* the blocks among the first n of bs that satisfy P
EligibleAmong(bs, n) == {i \in 1..n : is_eligible_material(bs[i])}

RECURSIVE SumOver(_, _)
\* the sum of f over the set S of indices
SumOver(f, S) ==
  IF S = {} THEN 0
  ELSE LET x == CHOOSE y \in S : TRUE IN f[x] + SumOver(f, S \ {x})

\* the last file read is still in the loop, or the loop ended by exception
IsCurrent(k) ==
  k = Len(trace) /\ pc \in {"loop", "crashed"}

\* the blocks of the k-th operation's file that were classified so far
ClassifiedOf(k) ==
  IF IsCurrent(k) THEN Len(updated) + (IF pc = "crashed" THEN 1 ELSE 0)
  ELSE Len(parse_material_file(trace[k].before))

\* the blocks of the k-th operation's file that were transformed so far
TransformedOf(k) ==
  IF IsCurrent(k) THEN Cardinality(EligibleAmong(materials, Len(updated)))
  ELSE LET bs == parse_material_file(trace[k].before)
       IN  Cardinality(EligibleAmong(bs, Len(bs)))

\* C9: at every point of a run processed_files is the number of files
\* overwritten so far, processed_materials the number of blocks classified
\* so far, updated_materials the number of blocks transformed so far, and
\* processed_files <= updated_materials <= processed_materials.
CountersMatch ==
  /\ processed_files = Cardinality(OpsAt("write"))
  /\ processed_materials =
       SumOver([k \in 1..Len(trace) |-> ClassifiedOf(k)], OpsAt("read"))
  /\ updated_materials =
       SumOver([k \in 1..Len(trace) |-> TransformedOf(k)], OpsAt("read"))
  /\ processed_files <= updated_materials
  /\ updated_materials <= processed_materials

\* C9 witness: a finished run in which the three counters differ
CountersApart ==
  /\ pc = "done"
  /\ 0 < processed_files
  /\ processed_files < updated_materials
  /\ updated_materials < processed_materials

\* the texture_unit opener of the block ends at the block's first "{" and
\* starts on a line after the one of the material name
UnitBeforeBody(b) ==
  \E i \in 4..Len(b) :
    /\ i \in Openers(b, "texture_unit")
    /\ \A k \in 1..i : b[k] # "{"
    /\ \E n \in 3..(i - 1) : b[n] = "\n"

\* C10 as stated: a block that was transformed is no longer eligible, and a
\* run after a completed run finds nothing eligible and overwrites nothing.
TransformedNeverEligible ==
  /\ \A k \in 1..Len(updated) :
       is_eligible_material(materials[k]) => ~is_eligible_material(updated[k])
  /\ runs >= 2 =>
       /\ updated_materials = 0
       /\ processed_files = 0
       /\ backups = fs0.backups

\* C10 as amended: a transformed block is no longer eligible (it has no
\* texture_unit opener left) unless its texture_unit opener stood before
\* its body, on a line after the material name; a run after a completed run
\* finds eligible, and overwrites files for, blocks of that kind only.
TransformedEligibleOnlyBeforeBody ==
  /\ \A k \in 1..Len(updated) :
       (is_eligible_material(materials[k]) /\ ~UnitBeforeBody(materials[k]))
         => /\ ~is_eligible_material(updated[k])
            /\ Openers(updated[k], "texture_unit") = {}
  /\ runs >= 2 =>
       /\ \A k \in 1..Len(updated) :
            is_eligible_material(materials[k]) => UnitBeforeBody(materials[k])
       /\ \A k \in OpsAt("write") :
            LET bs == parse_material_file(trace[k].before)
            IN  \E i \in 1..Len(bs) : UnitBeforeBody(bs[i])

\* C10 witness: the second run over a folder in which the first run rewrote
\* a file has ended, having looked at blocks and changed nothing
SecondRunIdle ==
  /\ runs = 2
  /\ pc = "done"
  /\ \E n \in DOMAIN fs0.files :
       fs0.files[n] # <<>> /\ fs0.files[n][1] = ImportLine
  /\ processed_materials > 0
  /\ processed_files = 0
  /\ Snapshot = fs0

====
